---- MODULE Spec2Model ----
(***************************************************************************)
(* A model of the INF parser of nicdgonzalez/inf: the Parser of            *)
(* src/parser.rs (into_sections, parse_section, parse_section_name,        *)
(* read_next_entry), the entry parser parse_section_entry with             *)
(* normalize_value, expand_vars of src/util.rs and decode_data of          *)
(* src/lib.rs.                                                             *)
(*                                                                         *)
(* A text is a sequence of characters; a character is a one-character      *)
(* string, except EAcute, which stands for a character whose UTF-8         *)
(* encoding takes two bytes.                                               *)
(***************************************************************************)
EXTENDS Integers, Sequences, FiniteSets, TLC

VARIABLES
    text,           \* Parser.chars: the whole decoded input
    pos,            \* Parser.chars: index of the next character to be read
    sections,       \* into_sections: the Vec<Section> being built
    cur,            \* parse_section: index of the section `entries` refers to
    line,           \* read_next_entry: the logical line assembled so far
    within_quotes,  \* read_next_entry: the quote flag
    pc,             \* where the parse stands: top, entries, read, done
    result,         \* what into_sections returned (Running until it returns)
    eline,          \* parse_section_entry called on its own: the argument
    eresult,        \* parse_section_entry called on its own: what it returned
    xvalue,         \* expand_vars: the argument `value`
    xstrings,       \* expand_vars: the entries of the argument `strings`
    xpos,           \* expand_vars: index of the next character of `value`
    xout,           \* expand_vars: the String `result` being built
    xresult,        \* expand_vars: what it returned (Running until it returns)
    data,           \* decode_data: the argument, a sequence of bytes
    origin,         \* decode_data: how the bytes of `data` were made
    decoded,        \* decode_data: the String returned, as code points
    dpc             \* decode_data: "idle", "call" or "done"

vars == <<text, pos, sections, cur, line, within_quotes, pc, result,
          eline, eresult, xvalue, xstrings, xpos, xout, xresult,
          data, origin, decoded, dpc>>

parserVars == <<text, pos, sections, cur, line, within_quotes, pc, result>>
entryVars == <<eline, eresult>>
expandVars == <<xvalue, xstrings, xpos, xout, xresult>>
decodeVars == <<data, origin, decoded, dpc>>

---------------------------------------------------------------------------
(* Characters *)

LF == "\n"
CR == "\r"
SP == " "
DQ == "\""
BS == "\\"
EAcute == "U+00E9"

\* str::len counts bytes of the UTF-8 encoding, not characters.
Utf8Len(c) == IF c = EAcute THEN 2 ELSE 1

\* str::len: the sum of the byte lengths of the characters (one or two bytes each).
ByteLen(s) == Len(s) + Cardinality({i \in 1..Len(s) : Utf8Len(s[i]) = 2})

\* char::is_whitespace / char::is_ascii_whitespace, on the characters used here.
IsWhitespace(c) == c \in {SP, CR, LF}

\* char::to_lowercase, on the characters used here.
ToLower(c) == IF c = "N" THEN "n" ELSE IF c = "M" THEN "m" ELSE c

to_lowercase(s) == [i \in 1..Len(s) |-> ToLower(s[i])]

---------------------------------------------------------------------------
(* str helpers *)

trim_end(s) ==
    LET n == CHOOSE i \in 0..Len(s) :
                 /\ (i = 0 \/ ~IsWhitespace(s[i]))
                 /\ \A j \in (i + 1)..Len(s) : IsWhitespace(s[j])
    IN  SubSeq(s, 1, n)

trim_start(s) ==
    LET n == CHOOSE i \in 1..(Len(s) + 1) :
                 /\ (i = Len(s) + 1 \/ ~IsWhitespace(s[i]))
                 /\ \A j \in 1..(i - 1) : IsWhitespace(s[j])
    IN  SubSeq(s, n, Len(s))

trim(s) == trim_start(trim_end(s))

starts_with(s, c) == Len(s) > 0 /\ s[1] = c
ends_with(s, c) == Len(s) > 0 /\ s[Len(s)] = c

\* str::strip_suffix(c).unwrap_or(s)
strip_suffix_or(s, c) == IF ends_with(s, c) THEN SubSeq(s, 1, Len(s) - 1) ELSE s

\* str::replace(cc, c): every non-overlapping doubled c, left to right, becomes one c.
RECURSIVE replace_doubled(_, _)
replace_doubled(s, c) ==
    IF Len(s) >= 2 /\ s[1] = c /\ s[2] = c
    THEN <<c>> \o replace_doubled(SubSeq(s, 3, Len(s)), c)
    ELSE IF s = <<>> THEN <<>>
    ELSE <<s[1]>> \o replace_doubled(Tail(s), c)

---------------------------------------------------------------------------
(* Results *)

Running == [tag |-> "Running"]
Ok(v) == [tag |-> "Ok", value |-> v]
Err(e) == [tag |-> "Err", error |-> e]
Panic == [tag |-> "Panic"]

UnexpectedCharacter(c) == [kind |-> "UnexpectedCharacter", c |-> c]
SectionNameEmpty == [kind |-> "SectionNameEmpty"]
SectionNameTooLong == [kind |-> "SectionNameTooLong"]
UnterminatedString == [kind |-> "UnterminatedString"]

Raw(s) == [kind |-> "Raw", s |-> s]
List(items) == [kind |-> "List", items |-> items]
Item(k, v) == [kind |-> "Item", key |-> k, value |-> v]
ValueOnly(v) == [kind |-> "ValueOnly", value |-> v]
Section(name, entries) == [name |-> name, entries |-> entries]

NoKey == [some |-> FALSE]
SomeKey(k) == [some |-> TRUE, k |-> k]

---------------------------------------------------------------------------
(* normalize_value and parse_section_entry *)

normalize_value(v) ==
    LET value == trim(v)
        s == starts_with(value, DQ)
        e == ends_with(value, DQ)
    IN  IF s /\ e
        THEN IF Len(value) = 1
             THEN Panic    \* &value[1..0]: the slice start is past its end
             ELSE Ok(replace_doubled(
                        replace_doubled(SubSeq(value, 2, Len(value) - 1), DQ), BS))
        ELSE IF ~s /\ ~e
        THEN Ok(replace_doubled(replace_doubled(value, DQ), BS))
        ELSE Err(UnterminatedString)

\* The match guards of the scan: a comma or an equal sign outside quotes.
IsFieldSeparator(c, wq) == c = "," /\ ~wq
IsKeySeparator(c, wq) == c = "=" /\ ~wq

\* The `=` arm: with a field already completed the `=` is skipped, otherwise
\* the text since `start` becomes the key.
KeyAt(st, ln, i) ==
    IF st.values # <<>>
    THEN st
    ELSE [st EXCEPT !.key = SomeKey(trim(SubSeq(ln, st.start + 1, i - 1))),
                    !.start = i]

\* The `,` arm.
FieldAt(st, ln, i) ==
    IF st.key.some /\ st.start = 0
    THEN [st EXCEPT !.out = Panic]
    ELSE LET v == normalize_value(SubSeq(ln, st.start + 1, i - 1))
         IN  IF v.tag = "Ok"
             THEN [st EXCEPT !.values = Append(@, v.value), !.start = i]
             ELSE [st EXCEPT !.out = v]

\* The for loop over line.char_indices(), from the i-th character on.
RECURSIVE EntryScan(_, _, _)
EntryScan(ln, i, st) ==
    IF i > Len(ln) \/ st.out.tag # "Running"
    THEN st
    ELSE EntryScan(ln, i + 1,
            IF ln[i] = DQ THEN [st EXCEPT !.wq = ~@]
            ELSE IF IsFieldSeparator(ln[i], st.wq) THEN FieldAt(st, ln, i)
            ELSE IF IsKeySeparator(ln[i], st.wq) THEN KeyAt(st, ln, i)
            ELSE st)

\* Mutant of ToValue: a single field is wrapped in a List too.
ToValueAlwaysList(values) == List(values)

\* values.len() == 1 gives Raw, anything else List.
ToValue(values) == IF Len(values) = 1 THEN Raw(values[1]) ELSE List(values)

parse_section_entry(ln) ==
    IF \/ ln = <<>>
       \/ ends_with(ln, BS)
       \/ \E i \in 1..Len(ln) : ln[i] \in {CR, LF}
    THEN Panic
    ELSE LET st == EntryScan(ln, 1, [values |-> <<>>, wq |-> FALSE,
                                     key |-> NoKey, start |-> 0, out |-> Running])
         IN  IF st.out.tag # "Running"
             THEN st.out
             ELSE LET last == normalize_value(trim(SubSeq(ln, st.start + 1, Len(ln))))
                  IN  IF last.tag # "Ok"
                      THEN last
                      ELSE LET value == ToValue(Append(st.values, last.value))
                           IN  Ok(IF st.key.some
                                  THEN Item(st.key.k, value)
                                  ELSE ValueOnly(value))

---------------------------------------------------------------------------
(* The Parser: scanning helpers *)

\* The length limit of a section name.
MaxSectionNameLen == 255

\* Iterator::find(|c| c == ch) from position p: the index of the first ch at
\* or after p, or Len(t) + 1 when the iterator runs out.
FindFrom(t, p, ch) ==
    IF \E i \in p..Len(t) : t[i] = ch
    THEN CHOOSE i \in p..Len(t) : t[i] = ch /\ \A j \in p..(i - 1) : t[j] # ch
    ELSE Len(t) + 1

\* Peekable::peek with the iterator at position p.
None == "None"
Peek(t, p) == IF p > Len(t) THEN None ELSE t[p]

\* The position after an element the iterator consumed at index i, if any.
After(t, i) == IF i > Len(t) THEN Len(t) + 1 ELSE i + 1

\* skip_comment: consume through the next line feed.
skip_comment(t, p) == After(t, FindFrom(t, p, LF))

\* The check of the collected name.
NameCheck(name) ==
    IF name = <<>> THEN Err(SectionNameEmpty)
    ELSE IF ByteLen(name) > MaxSectionNameLen THEN Err(SectionNameTooLong)
    ELSE Ok(name)

\* The loop over the rest of the header line, from position q.
RECURSIVE HeaderTail(_, _)
HeaderTail(t, q) ==
    IF q > Len(t) THEN [tag |-> "Ok", pos |-> q]
    ELSE IF t[q] = ";" THEN [tag |-> "Ok", pos |-> skip_comment(t, q + 1)]
    ELSE IF t[q] = LF THEN [tag |-> "Ok", pos |-> q + 1]
    ELSE IF IsWhitespace(t[q]) THEN HeaderTail(t, q + 1)
    ELSE Err(UnexpectedCharacter(t[q]))

\* parse_section_name, called with the iterator at position p (after the `[`):
\* Ok with the name and the position reached, or Err.
parse_section_name(t, p) ==
    LET close == FindFrom(t, p, "]")
        checked == NameCheck(SubSeq(t, p, close - 1))
        tail == HeaderTail(t, After(t, close))
    IN  IF checked.tag = "Err" THEN checked
        ELSE IF tail.tag = "Err" THEN tail
        ELSE [tag |-> "Ok", value |-> checked.value, pos |-> tail.pos]

\* Mutant of SectionIndex: the lookup never finds the section.
SectionIndexNever(secs, name) == 0

\* sections.iter().position(|section| section_name == section.name()), 0 for None.
SectionIndex(secs, name) ==
    IF \E i \in 1..Len(secs) : secs[i].name = name
    THEN CHOOSE i \in 1..Len(secs) :
             secs[i].name = name /\ \A j \in 1..(i - 1) : secs[j].name # name
    ELSE 0

\* The take_while of read_next_entry from index i with quote flag wq: the index
\* of the line feed that ends it (Len(t) + 1 at the end of the input) and the flag.
RECURSIVE LineEnd(_, _, _)
LineEnd(t, i, wq) ==
    IF i > Len(t) THEN [stop |-> i, wq |-> wq]
    ELSE LET q == IF t[i] = DQ THEN ~wq ELSE wq
         IN  IF q \/ t[i] # LF THEN LineEnd(t, i + 1, q)
             ELSE [stop |-> i, wq |-> q]

\* Mutant of IsCommentStart: a `;` starts a comment inside quotes too.
IsCommentStartAnywhere(c, wq) == c = ";"

\* The guard of the comment arm.
IsCommentStart(c, wq) == c = ";" /\ ~wq

\* The "trim inline comments" loop over current.char_indices(), from index i.
RECURSIVE StripComment(_, _, _)
StripComment(current, i, wq) ==
    IF i > Len(current) THEN [current |-> current, wq |-> wq]
    ELSE IF current[i] = DQ THEN StripComment(current, i + 1, ~wq)
    ELSE IF IsCommentStart(current[i], wq)
         THEN [current |-> trim_end(SubSeq(current, 1, i - 1)), wq |-> wq]
    ELSE StripComment(current, i + 1, wq)

\* What is pushed onto `line` when `current` ends with a line continuator.
Continued(current) == SubSeq(current, 1, Len(current) - 1)

\* One iteration of the loop of read_next_entry, with the iterator at p.
ReadPiece(t, p, ln, wq) ==
    LET le == LineEnd(t, p, wq)
        taken == SubSeq(t, p, le.stop - 1)
        cur0 == trim_end(strip_suffix_or(taken, CR))
        sc == StripComment(cur0, 1, le.wq)
        next == After(t, le.stop)
    IN  IF le.wq THEN [kind |-> "err", pos |-> next]
        ELSE IF sc.wq THEN [kind |-> "err", pos |-> next]
        ELSE IF ends_with(sc.current, BS)
        THEN [kind |-> "continue", pos |-> next, wq |-> sc.wq,
              line |-> ln \o Continued(sc.current)]
        ELSE [kind |-> "break", pos |-> next, wq |-> sc.wq,
              line |-> ln \o sc.current]

\* Mutant of Fail: the sections parsed so far are returned instead of the error.
FailPartial(e, secs) == Ok(secs)

\* What into_sections returns when an error is raised.
Fail(e, secs) == Err(e)

---------------------------------------------------------------------------
(* Inputs *)

MaxLines == 4       \* lines of a document built from DocLines
MaxBody == 4        \* characters of a section body built from BodyChars
MaxHeader == 4      \* characters after a `[` built from HeaderChars
MaxNameChars == 257 \* characters of a long section name

SeqsUpTo(S, n) == UNION {[1..k -> S] : k \in 0..n}

RECURSIVE Flatten(_)
Flatten(ss) == IF ss = <<>> THEN <<>> ELSE Head(ss) \o Flatten(Tail(ss))

Repeat(c, n) == [i \in 1..n |-> c]

HeaderA == <<"[", "A", "]", LF>>
HeaderB == <<"[", "B", "]", LF>>

DocLines ==
    { HeaderA, HeaderB,
      <<"x", "=", "1", LF>>,
      <<"y", LF>>,
      <<";", "c", LF>> }

BodyChars == {"a", SP, DQ, ",", "=", BS, ";", LF, CR}

HeaderChars == {"A", "]", LF, SP, ";"}

\* Texts of the tests of src/lib.rs and of the examples the documentation gives,
\* with shorter words.
Examples ==
    { \* [A] x=1 [B] [A] y=2
      HeaderA \o <<"x", "=", "1", LF>> \o HeaderB \o HeaderA \o <<"y", "=", "2">>,
      \* multiline_value_with_inline_comment
      <<LF, ";", "c", LF, LF>> \o HeaderA
        \o <<"k", SP, "=", SP, "a", ",", DQ, "b", ";", "c", DQ, BS, SP, ";", SP, "c", LF>>
        \o <<",", "d", ",", ",", "e", LF>>,
      \* multiple_sections, with CRLF line ends
      <<"[", "A", "]", SP, ";", SP, "c", CR, LF>>
        \o <<"k", SP, "=", SP, DQ, "$", "a", "$", DQ, CR, LF, CR, LF>>
        \o <<"[", "B", "]", CR, LF, "k", SP, "=", SP, "b", CR>>,
      \* quoted_value_with_equal
      <<LF>> \o HeaderA \o <<DQ, "1", "+", "1", "=", "2", DQ, LF>>,
      \* a quoted field with a semicolon
      HeaderA \o <<"k", SP, "=", SP, "a", ",", DQ, "b", ";", "c", DQ, LF>>,
      \* two continuation lines in a row
      HeaderA \o <<"a", ",", BS, LF, "b", BS, LF, "c", LF, "y", LF>>,
      \* a quote in a comment
      HeaderA \o <<"a", SP, ";", DQ, LF, "b", LF>>,
      HeaderA \o <<"a", SP, ";", DQ, LF, "b", DQ, LF, "y", LF>>,
      \* whitespace before a line continuator
      HeaderA \o <<"a", SP, BS, LF, "b", LF>>,
      \* a line that ends with a doubled backslash, then another line
      HeaderA \o <<"a", BS, BS, LF, "b", LF>>,
      HeaderA \o <<"a", BS, BS, SP, ";", "c", LF, "y", LF>>,
      \* an error after a section was parsed
      HeaderA \o <<"x", "=", "1", LF>> \o HeaderB \o <<"y", "=", DQ, "b", LF>>,
      HeaderA \o <<"x", "=", "1", LF, "[", "]", LF>>,
      \* a header that runs over a line end
      <<"[", "A", LF, "x", "=", "1", LF>> \o HeaderB \o <<"y", "]", LF, "a", LF>> }

Inputs ==
    {Flatten(ls) : ls \in SeqsUpTo(DocLines, MaxLines)}
      \cup {HeaderA \o b : b \in SeqsUpTo(BodyChars, MaxBody)}
      \cup {<<"[">> \o h : h \in SeqsUpTo(HeaderChars, MaxHeader)}
      \cup {<<"[">> \o Repeat(c, n) \o <<"]">> : c \in {"A", EAcute}, n \in 0..MaxNameChars}
      \cup Examples

---------------------------------------------------------------------------
(* The Parser: into_sections *)

EntryIdle == eline = <<>> /\ eresult = Running
ExpandIdle ==
    /\ xvalue = <<>> /\ xstrings = <<>> /\ xpos = 1 /\ xout = <<>>
    /\ xresult = Running
DecodeIdle ==
    /\ data = <<>> /\ origin = [kind |-> "bytes", chars |-> <<>>]
    /\ decoded = <<>> /\ dpc = "idle"

Init ==
    /\ text \in Inputs
    /\ pos = 1
    /\ sections = <<>>
    /\ cur = 0
    /\ line = <<>>
    /\ within_quotes = FALSE
    /\ pc = "top"
    /\ result = Running
    /\ EntryIdle
    /\ ExpandIdle
    /\ DecodeIdle

\* into_sections: the iterator is exhausted, Ok(sections) is returned.
IntoSectionsReturn ==
    /\ pc = "top" /\ pos > Len(text)
    /\ pc' = "done"
    /\ result' = Ok(sections)
    /\ UNCHANGED <<text, pos, sections, cur, line, within_quotes>>
    /\ UNCHANGED <<entryVars, expandVars, decodeVars>>

\* into_sections: `;` => self.skip_comment()
TopComment ==
    /\ pc = "top" /\ pos <= Len(text) /\ text[pos] = ";"
    /\ pos' = skip_comment(text, pos + 1)
    /\ UNCHANGED <<text, sections, cur, line, within_quotes, pc, result>>
    /\ UNCHANGED <<entryVars, expandVars, decodeVars>>

\* into_sections: `_` => {}
TopSkip ==
    /\ pc = "top" /\ pos <= Len(text) /\ text[pos] \notin {";", "["}
    /\ pos' = pos + 1
    /\ UNCHANGED <<text, sections, cur, line, within_quotes, pc, result>>
    /\ UNCHANGED <<entryVars, expandVars, decodeVars>>

\* into_sections: `[` => self.parse_section(&mut sections)?, up to its entry loop.
ParseSection ==
    /\ pc = "top" /\ pos <= Len(text) /\ text[pos] = "["
    /\ LET name == parse_section_name(text, pos + 1)
           i == SectionIndex(sections, name.value)
       IN  IF name.tag = "Err"
           THEN /\ pc' = "done"
                /\ result' = Fail(name.error, sections)
                /\ pos' = Len(text) + 1
                /\ UNCHANGED <<sections, cur>>
           ELSE /\ pc' = "entries"
                /\ pos' = name.pos
                /\ IF i # 0
                   THEN cur' = i /\ UNCHANGED sections
                   ELSE /\ sections' = Append(sections, Section(name.value, <<>>))
                        /\ cur' = Len(sections) + 1
                /\ UNCHANGED result
    /\ UNCHANGED <<text, line, within_quotes>>
    /\ UNCHANGED <<entryVars, expandVars, decodeVars>>

\* Mutant of BeginEntry: the loop goes on at the end of the input as well.
BeginEntryAtEnd ==
    /\ pc = "entries" /\ Peek(text, pos) # "["
    /\ pc' = "read"
    /\ line' = <<>>
    /\ within_quotes' = FALSE
    /\ UNCHANGED <<text, pos, sections, cur, result>>
    /\ UNCHANGED <<entryVars, expandVars, decodeVars>>

\* parse_section: the loop condition holds, read_next_entry is entered.
BeginEntry ==
    /\ pc = "entries" /\ Peek(text, pos) \notin {None, "["}
    /\ pc' = "read"
    /\ line' = <<>>
    /\ within_quotes' = FALSE
    /\ UNCHANGED <<text, pos, sections, cur, result>>
    /\ UNCHANGED <<entryVars, expandVars, decodeVars>>

\* parse_section: the loop condition fails, control is back in into_sections.
EndSection ==
    /\ pc = "entries" /\ Peek(text, pos) \in {None, "["}
    /\ pc' = "top"
    /\ UNCHANGED <<text, pos, sections, cur, line, within_quotes, result>>
    /\ UNCHANGED <<entryVars, expandVars, decodeVars>>

\* read_next_entry: an iteration that ends in `continue`.
ReadContinue ==
    /\ pc = "read"
    /\ LET r == ReadPiece(text, pos, line, within_quotes)
       IN  /\ r.kind = "continue"
           /\ pos' = r.pos
           /\ line' = r.line
           /\ within_quotes' = r.wq
    /\ UNCHANGED <<text, sections, cur, pc, result>>
    /\ UNCHANGED <<entryVars, expandVars, decodeVars>>

\* read_next_entry: an iteration that returns Err(UnterminatedString).
ReadUnterminated ==
    /\ pc = "read"
    /\ LET r == ReadPiece(text, pos, line, within_quotes)
       IN  /\ r.kind = "err"
           /\ pos' = r.pos
    /\ pc' = "done"
    /\ result' = Fail(UnterminatedString, sections)
    /\ UNCHANGED <<text, sections, cur, line, within_quotes>>
    /\ UNCHANGED <<entryVars, expandVars, decodeVars>>

\* read_next_entry: an iteration that ends in `break`; the line, unless empty,
\* goes to parse_section_entry and the entry is pushed.
ReadBreak ==
    /\ pc = "read"
    /\ LET r == ReadPiece(text, pos, line, within_quotes)
           e == parse_section_entry(r.line)
       IN  /\ r.kind = "break"
           /\ pos' = r.pos
           /\ line' = r.line
           /\ within_quotes' = r.wq
           /\ IF r.line = <<>>
              THEN pc' = "entries" /\ UNCHANGED <<sections, result>>
              ELSE IF e.tag = "Ok"
              THEN /\ sections' = [sections EXCEPT ![cur].entries = Append(@, e.value)]
                   /\ pc' = "entries"
                   /\ UNCHANGED result
              ELSE /\ pc' = "done"
                   /\ result' = IF e.tag = "Err" THEN Fail(e.error, sections) ELSE Panic
                   /\ UNCHANGED sections
    /\ UNCHANGED <<text, cur>>
    /\ UNCHANGED <<entryVars, expandVars, decodeVars>>

Next ==
    \/ IntoSectionsReturn
    \/ TopComment
    \/ TopSkip
    \/ ParseSection
    \/ BeginEntry
    \/ EndSection
    \/ ReadContinue
    \/ ReadUnterminated
    \/ ReadBreak

Spec == Init /\ [][Next]_vars

---------------------------------------------------------------------------
(* Reading a text as a document of header lines and entry lines *)

\* The physical lines of a text, split at line feeds.
RECURSIVE SplitLines(_)
SplitLines(t) ==
    IF t = <<>> THEN <<>>
    ELSE LET e == IF \E i \in 1..Len(t) : t[i] = LF
                  THEN CHOOSE i \in 1..Len(t) :
                           t[i] = LF /\ \A j \in 1..(i - 1) : t[j] # LF
                  ELSE Len(t) + 1
         IN  <<SubSeq(t, 1, e - 1)>> \o SplitLines(SubSeq(t, e + 1, Len(t)))

NameChars == {"A", "B"}
PlainChars == {"a", "b", "c", "x", "y", "k", "1", "2", "=", ","}

IsHeaderLine(l) ==
    /\ Len(l) >= 3 /\ l[1] = "[" /\ l[Len(l)] = "]"
    /\ \A i \in 2..(Len(l) - 1) : l[i] \in NameChars

IsPlainLine(l) == l # <<>> /\ \A i \in 1..Len(l) : l[i] \in PlainChars

IsCommentLine(l) ==
    l # <<>> /\ l[1] = ";" /\ \A i \in 2..Len(l) : l[i] \in PlainChars \cup {SP, ";"}

\* A text made of header lines, plain entry lines, comment lines and empty lines.
LineDoc(t) ==
    \A l \in {SplitLines(t)[i] : i \in 1..Len(SplitLines(t))} :
        IsHeaderLine(l) \/ IsPlainLine(l) \/ IsCommentLine(l) \/ l = <<>>

HeaderName(l) == SubSeq(l, 2, Len(l) - 1)

\* The elements of a finite set of numbers, in increasing order.
RECURSIVE Ascending(_)
Ascending(S) ==
    IF S = {} THEN <<>>
    ELSE LET m == CHOOSE x \in S : \A y \in S : x <= y
         IN  <<m>> \o Ascending(S \ {m})

\* The header line that governs line j: the last one before it, 0 if none.
Governing(ls, j) ==
    LET H == {h \in 1..(j - 1) : IsHeaderLine(ls[h])}
    IN  IF H = {} THEN 0 ELSE CHOOSE h \in H : \A g \in H : g <= h

\* What the documentation asks of a document of lines: one section per distinct
\* name, in the order of first appearance, each with the entries of the lines
\* that follow any header of that name, in source order.
RefDoc(t) ==
    LET ls == SplitLines(t)
        firsts == {j \in 1..Len(ls) :
                      /\ IsHeaderLine(ls[j])
                      /\ \A h \in 1..(j - 1) :
                            IsHeaderLine(ls[h]) => HeaderName(ls[h]) # HeaderName(ls[j])}
        under(name) == {j \in 1..Len(ls) :
                          /\ IsPlainLine(ls[j])
                          /\ Governing(ls, j) # 0
                          /\ HeaderName(ls[Governing(ls, j)]) = name}
        entriesOf(name) == LET idx == Ascending(under(name))
                           IN  [i \in 1..Len(idx) |-> parse_section_entry(ls[idx[i]]).value]
        order == Ascending(firsts)
    IN  [i \in 1..Len(order) |->
            Section(HeaderName(ls[order[i]]), entriesOf(HeaderName(ls[order[i]])))]

---------------------------------------------------------------------------
(* Claims about the Parser *)

\* C1: duplicate-section merge. No two sections of the document under
\* construction share a name, and for every text of header lines and entry
\* lines that parses successfully the returned document holds one section per
\* distinct header name, in the order of first appearance, each with the
\* entries that follow every occurrence of the name, in source order.
C1_DuplicateSectionMerge ==
    /\ \A i, j \in 1..Len(sections) :
           i # j => sections[i].name # sections[j].name
    /\ (pc = "done" /\ result.tag = "Ok" /\ LineDoc(text))
           => result.value = RefDoc(text)

\* C1 witness: [A] x=1 [B] [A] y=2 was parsed into A with both entries and an
\* empty B.
C1_Witness ==
    /\ pc = "done"
    /\ text = HeaderA \o <<"x", "=", "1", LF>> \o HeaderB \o HeaderA \o <<"y", "=", "2">>
    /\ result = Ok(<<Section(<<"A">>, <<Item(<<"x">>, Raw(<<"1">>)),
                                        Item(<<"y">>, Raw(<<"2">>))>>),
                     Section(<<"B">>, <<>>)>>)

---------------------------------------------------------------------------
(* parse_section_entry called on a line of its own *)

MaxLineLen == 5     \* characters of a line handed to parse_section_entry

LineChars == {"a", "b", SP, DQ, ",", "=", BS}

ParserIdle ==
    /\ text = <<>> /\ pos = 1 /\ sections = <<>> /\ cur = 0 /\ line = <<>>
    /\ within_quotes = FALSE /\ pc = "idle" /\ result = Running

InitEntry ==
    /\ eline \in SeqsUpTo(LineChars, MaxLineLen)
    /\ eresult = Running
    /\ ParserIdle
    /\ ExpandIdle
    /\ DecodeIdle

\* parse_section_entry returns Ok(entry).
EntryOk ==
    /\ eresult = Running
    /\ parse_section_entry(eline).tag = "Ok"
    /\ eresult' = parse_section_entry(eline)
    /\ UNCHANGED <<eline, parserVars, expandVars, decodeVars>>

\* parse_section_entry returns Err(UnterminatedString).
EntryErr ==
    /\ eresult = Running
    /\ parse_section_entry(eline).tag = "Err"
    /\ eresult' = parse_section_entry(eline)
    /\ UNCHANGED <<eline, parserVars, expandVars, decodeVars>>

\* One of the assertions of parse_section_entry fails, or a slice is out of range.
EntryPanic ==
    /\ eresult = Running
    /\ parse_section_entry(eline).tag = "Panic"
    /\ eresult' = Panic
    /\ UNCHANGED <<eline, parserVars, expandVars, decodeVars>>

NextEntry == EntryOk \/ EntryErr \/ EntryPanic

SpecEntry == InitEntry /\ [][NextEntry]_vars

---------------------------------------------------------------------------
(* Claims about parse_section_entry *)

\* Whether the i-th character of l lies outside quotes: an even number of
\* quote characters precedes it.
Unquoted(l, i) == Cardinality({j \in 1..(i - 1) : l[j] = DQ}) % 2 = 0

UnquotedAt(l, c) == {i \in 1..Len(l) : l[i] = c /\ Unquoted(l, i)}

\* The text between the (i-1)-th and the i-th unquoted comma of l, for i >= 2
\* (the last field ends with the line).
FieldText(l, i) ==
    LET commas == Ascending(UnquotedAt(l, ","))
        to == IF i > Len(commas) THEN Len(l) ELSE commas[i] - 1
    IN  SubSeq(l, commas[i - 1] + 1, to)

IsBlank(s) == \A i \in 1..Len(s) : IsWhitespace(s[i])
IsWord(s) == s # <<>> /\ \A i \in 1..Len(s) : s[i] \in {"a", "b"}

C7_KeyIsTextBeforeFirstEquals ==
    LET eqs == UnquotedAt(eline, "=")
        first == CHOOSE q \in eqs : \A r \in eqs : q <= r
    IN  (/\ eresult.tag = "Ok"
         /\ eqs # {}
         /\ \A c \in UnquotedAt(eline, ",") : first < c)
          => /\ eresult.value.kind = "Item"
             /\ eresult.value.key = trim(SubSeq(eline, 1, first - 1))

---------------------------------------------------------------------------
(* Claims about the Parser, continued *)

\* The text after a first line [A], without one trailing line feed.
HasHeaderA(t) == Len(t) > 4 /\ SubSeq(t, 1, 4) = HeaderA
BodyOf(t) == strip_suffix_or(SubSeq(t, 5, Len(t)), LF)

OnlyA(entries) == Ok(<<Section(<<"A">>, entries)>>)

\* C3: the length limit of a section name counts characters. For a text that
\* is a header `[name]` and nothing else, the empty name fails with
\* SectionNameEmpty, a name of 1 to 255 characters parses and a longer one
\* fails with SectionNameTooLong, whatever the characters are.
C3_NameLengthInCharacters ==
    (/\ pc = "done"
     /\ Len(text) >= 2 /\ text[1] = "[" /\ text[Len(text)] = "]"
     /\ \A i \in 2..(Len(text) - 1) : text[i] # "]")
      => LET name == SubSeq(text, 2, Len(text) - 1)
         IN  result = IF Len(name) = 0 THEN Err(SectionNameEmpty)
                      ELSE IF Len(name) <= MaxSectionNameLen
                           THEN Ok(<<Section(name, <<>>)>>)
                      ELSE Err(SectionNameTooLong)

\* C4: a header whose `[` is not followed by a `]` before the next line feed or
\* the end of the input makes the parse fail with an error, and no section
\* name holds a line feed.
C4_UnclosedHeaderFails ==
    /\ \A i \in 1..Len(sections) :
           \A k \in 1..Len(sections[i].name) : sections[i].name[k] # LF
    /\ (/\ pc = "done"
        /\ Len(text) >= 1 /\ text[1] = "["
        /\ \A i \in 2..(FindFrom(text, 1, LF) - 1) : text[i] # "]")
         => result.tag = "Err"

\* C5: a `;` outside quotes starts a comment that runs to the next line feed
\* whatever it contains. For a section [A] whose first line is a word (or
\* nothing) followed by a comment and whose second line is a word, the entries
\* are the two words: the comment leaves no trace and the second line is
\* scanned as a line of its own.
C5_CommentRunsToLineEnd ==
    (pc = "done" /\ HasHeaderA(text)) =>
        LET ls == SplitLines(BodyOf(text))
            semi == FindFrom(ls[1], 1, ";")
            before == trim_end(SubSeq(ls[1], 1, semi - 1))
        IN  (/\ Len(ls) = 2
             /\ semi <= Len(ls[1])
             /\ before = <<>> \/ IsWord(before)
             /\ IsWord(ls[2]))
              => result = OnlyA((IF before = <<>> THEN <<>>
                                 ELSE <<ValueOnly(Raw(before))>>)
                                \o <<ValueOnly(Raw(ls[2]))>>)

QuotedChars == {"a", ";", ",", "=", SP}

\* b is, from its k-th character on, one quoted string of QuotedChars.
IsQuotedFrom(b, k) ==
    /\ Len(b) >= k + 1 /\ b[k] = DQ /\ b[Len(b)] = DQ
    /\ \A i \in (k + 1)..(Len(b) - 1) : b[i] \in QuotedChars

Inner(b, k) == SubSeq(b, k + 1, Len(b) - 1)

ExampleQuotedField ==
    HeaderA \o <<"k", SP, "=", SP, "a", ",", DQ, "b", ";", "c", DQ, LF>>

\* C6: inside quotes `;`, `,` and `=` are content. A section body that is one
\* quoted string yields ValueOnly(Raw(content)) whatever delimiters the content
\* holds; after an unquoted `,` or `=` the quoted string is one field; and
\* k = a,"b;c" keeps b;c as one field.
C6_QuotedDelimitersAreContent ==
    pc = "done" =>
        /\ HasHeaderA(text) =>
             LET b == BodyOf(text)
             IN  /\ IsQuotedFrom(b, 1) =>
                        result = OnlyA(<<ValueOnly(Raw(Inner(b, 1)))>>)
                 /\ (starts_with(b, ",") /\ IsQuotedFrom(b, 2)) =>
                        result = OnlyA(<<ValueOnly(List(<<<<>>, Inner(b, 2)>>))>>)
                 /\ (starts_with(b, "=") /\ IsQuotedFrom(b, 2)) =>
                        result = OnlyA(<<Item(<<>>, Raw(Inner(b, 2)))>>)
        /\ text = ExampleQuotedField =>
               result = OnlyA(<<Item(<<"k">>, List(<<<<"a">>, <<"b", ";", "c">>>>))>>)
        /\ text = <<LF>> \o HeaderA \o <<DQ, "1", "+", "1", "=", "2", DQ, LF>> =>
               result = OnlyA(<<ValueOnly(Raw(<<"1", "+", "1", "=", "2">>))>>)

\* C6 witness: k = a,"b;c" was parsed, and so was a body that is a quoted `;`.
C6_Witness ==
    /\ pc = "done"
    /\ \/ text = ExampleQuotedField
       \/ text = HeaderA \o <<DQ, ";", DQ>>
    /\ result.tag = "Ok"

SimpleChars == {"a", "b", SP, ",", "="}
IsSimple(s) == \A i \in 1..Len(s) : s[i] \in SimpleChars

\* The logical line the documentation asks for: every continued piece loses
\* its backslash and then its trailing whitespace; the last line is appended.
RECURSIVE JoinContinued(_)
JoinContinued(ls) ==
    IF Len(ls) = 1 THEN trim_end(ls[1])
    ELSE trim_end(SubSeq(ls[1], 1, Len(ls[1]) - 1)) \o JoinContinued(Tail(ls))

\* C8: line continuation. For a section [A] whose body is any number of lines
\* that end with a backslash followed by one that does not, the lines join
\* into one logical line (backslash dropped, trailing whitespace of each piece
\* trimmed) that gives exactly one entry.
C8_ContinuationJoinsTrimmed ==
    (pc = "done" /\ HasHeaderA(text)) =>
        LET ls == SplitLines(BodyOf(text))
            joined == JoinContinued(ls)
        IN  (/\ Len(ls) >= 2
             /\ \A i \in 1..(Len(ls) - 1) :
                    ends_with(ls[i], BS) /\ IsSimple(SubSeq(ls[i], 1, Len(ls[i]) - 1))
             /\ IsSimple(ls[Len(ls)])
             /\ ~starts_with(ls[1], SP)
             /\ parse_section_entry(joined).tag = "Ok")
              => result = OnlyA(<<parse_section_entry(joined).value>>)

\* The rest of the input, from p on, ends inside a quote that the physical
\* line starting at p opened: the number of quote characters is odd and every
\* line feed is preceded by an odd number of them.
QuoteOpenAtEnd(t, p) ==
    LET quotesIn(a, b) == Cardinality({j \in a..b : t[j] = DQ})
    IN  /\ quotesIn(p, Len(t)) % 2 = 1
        /\ \A i \in p..Len(t) : t[i] = LF => quotesIn(p, i - 1) % 2 = 1

\* C9: when read_next_entry reaches the end of the input with a quote still
\* open the parse returns Err(UnterminatedString); and an error ends the
\* parse in the step that raises it, with the error as the only thing
\* returned, whatever sections were parsed before.
C9_ErrorsAbortTheParse ==
    [][/\ (pc = "read" /\ QuoteOpenAtEnd(text, pos))
           => (pc' = "done" /\ result' = Err(UnterminatedString))
       /\ (pc = "read" /\ ReadPiece(text, pos, line, within_quotes).kind = "err")
           => (pc' = "done" /\ result' = Err(UnterminatedString))
       /\ (pc = "top" /\ Peek(text, pos) = "["
             /\ parse_section_name(text, pos + 1).tag = "Err")
           => (pc' = "done" /\ result' = parse_section_name(text, pos + 1))
       /\ pc = "done" => UNCHANGED vars]_vars

\* C9 witness: the input ended inside a quote after a section with an entry had
\* been parsed, and only the error was returned.
C9_Witness ==
    /\ pc = "done"
    /\ text = HeaderA \o <<"x", "=", "1", LF>> \o HeaderB \o <<"y", "=", DQ, "b", LF>>
    /\ sections = <<Section(<<"A">>, <<Item(<<"x">>, Raw(<<"1">>))>>),
                    Section(<<"B">>, <<>>)>>
    /\ result = Err(UnterminatedString)

---------------------------------------------------------------------------
(* expand_vars *)

MaxValueLen == 6    \* characters of the string handed to expand_vars

ExpandChars == {"%", "n", "N", "!"}

\* The entries of the lookup sections tried.
Lookups ==
    { <<>>,
      <<Item(<<"n">>, Raw(<<"S">>))>>,
      <<Item(<<"N">>, Raw(<<"%", "n", "%">>))>>,
      <<ValueOnly(Raw(<<"n">>)),
        Item(<<"n">>, List(<<<<"a">>, <<"b">>>>)),
        Item(<<"n">>, Raw(<<"x">>)),
        Item(<<"N">>, Raw(<<"y">>))>>,
      <<Item(<<"n">>, List(<<<<"a">>, <<"b">>>>))>>,
      <<ValueOnly(Raw(<<"n">>))>>,
      <<Item(<<"!">>, Raw(<<"%">>)), Item(<<"n", "n">>, Raw(<<>>))>> }

ExpandVarsError(kind) == [kind |-> kind]

\* Mutant of KeyMatches: the keys are compared as they are written.
KeyMatchesExactly(var, key) == var = key

\* var_lowercase == key.to_lowercase()
KeyMatches(var, key) == to_lowercase(var) = to_lowercase(key)

\* The closure handed to find_map: Some(s) for an Item with a matching key and
\* a Raw value.
Resolves(entry, var) ==
    /\ entry.kind = "Item"
    /\ KeyMatches(var, entry.key)
    /\ entry.value.kind = "Raw"

\* Mutant of FindReplacement: the search stops at the first Item with a
\* matching key, whatever its value.
FindReplacementFirstKey(strings, var) ==
    LET hit(i) == strings[i].kind = "Item" /\ KeyMatches(var, strings[i].key)
    IN  IF \E i \in 1..Len(strings) : hit(i)
        THEN LET f == CHOOSE i \in 1..Len(strings) :
                          hit(i) /\ \A j \in 1..(i - 1) : ~hit(j)
             IN  IF strings[f].value.kind = "Raw" THEN f ELSE 0
        ELSE 0

\* strings.entries().iter().find_map(..): the index of the first entry that
\* resolves var, 0 for None.
FindReplacement(strings, var) ==
    IF \E i \in 1..Len(strings) : Resolves(strings[i], var)
    THEN CHOOSE i \in 1..Len(strings) :
             /\ Resolves(strings[i], var)
             /\ \A j \in 1..(i - 1) : ~Resolves(strings[j], var)
    ELSE 0

InitExpand ==
    /\ xvalue \in SeqsUpTo(ExpandChars, MaxValueLen)
    /\ xstrings \in Lookups
    /\ xpos = 1
    /\ xout = <<>>
    /\ xresult = Running
    /\ ParserIdle
    /\ EntryIdle
    /\ DecodeIdle

\* c != '%': the character is pushed.
ExpandCopy ==
    /\ xresult = Running
    /\ Peek(xvalue, xpos) \notin {None, "%"}
    /\ xout' = Append(xout, xvalue[xpos])
    /\ xpos' = xpos + 1
    /\ UNCHANGED <<xvalue, xstrings, xresult, parserVars, entryVars, decodeVars>>

\* Mutant of ExpandEscape: both characters of the escape are pushed.
ExpandEscapeKeepsBoth ==
    /\ xresult = Running
    /\ Peek(xvalue, xpos) = "%" /\ Peek(xvalue, xpos + 1) = "%"
    /\ xout' = xout \o <<"%", "%">>
    /\ xpos' = xpos + 2
    /\ UNCHANGED <<xvalue, xstrings, xresult, parserVars, entryVars, decodeVars>>

\* Escaped percent: %%
ExpandEscape ==
    /\ xresult = Running
    /\ Peek(xvalue, xpos) = "%" /\ Peek(xvalue, xpos + 1) = "%"
    /\ xout' = Append(xout, "%")
    /\ xpos' = xpos + 2
    /\ UNCHANGED <<xvalue, xstrings, xresult, parserVars, entryVars, decodeVars>>

\* %strkey%: the name is read up to the next `%` and its replacement pushed.
ExpandVar ==
    /\ xresult = Running
    /\ Peek(xvalue, xpos) = "%" /\ Peek(xvalue, xpos + 1) # "%"
    /\ LET close == FindFrom(xvalue, xpos + 1, "%")
           var == SubSeq(xvalue, xpos + 1, close - 1)
           i == FindReplacement(xstrings, var)
       IN  /\ close <= Len(xvalue)
           /\ i # 0
           /\ xout' = xout \o xstrings[i].value.s
           /\ xpos' = close + 1
    /\ UNCHANGED <<xvalue, xstrings, xresult, parserVars, entryVars, decodeVars>>

\* Mutant of ExpandUnterminated: the open placeholder is reported as a key
\* that was not found.
ExpandUnterminatedAsNotFound ==
    /\ xresult = Running
    /\ Peek(xvalue, xpos) = "%" /\ Peek(xvalue, xpos + 1) # "%"
    /\ FindFrom(xvalue, xpos + 1, "%") > Len(xvalue)
    /\ xresult' = Err(ExpandVarsError("NotFound"))
    /\ xpos' = Len(xvalue) + 1
    /\ UNCHANGED <<xvalue, xstrings, xout, parserVars, entryVars, decodeVars>>

\* The string ends inside %strkey: Err(Unterminated).
ExpandUnterminated ==
    /\ xresult = Running
    /\ Peek(xvalue, xpos) = "%" /\ Peek(xvalue, xpos + 1) # "%"
    /\ FindFrom(xvalue, xpos + 1, "%") > Len(xvalue)
    /\ xresult' = Err(ExpandVarsError("Unterminated"))
    /\ xpos' = Len(xvalue) + 1
    /\ UNCHANGED <<xvalue, xstrings, xout, parserVars, entryVars, decodeVars>>

\* No entry resolves the name: Err(NotFound).
ExpandNotFound ==
    /\ xresult = Running
    /\ Peek(xvalue, xpos) = "%" /\ Peek(xvalue, xpos + 1) # "%"
    /\ LET close == FindFrom(xvalue, xpos + 1, "%")
       IN  /\ close <= Len(xvalue)
           /\ FindReplacement(xstrings, SubSeq(xvalue, xpos + 1, close - 1)) = 0
           /\ xpos' = close + 1
    /\ xresult' = Err(ExpandVarsError("NotFound"))
    /\ UNCHANGED <<xvalue, xstrings, xout, parserVars, entryVars, decodeVars>>

\* The characters are exhausted: Ok(result).
ExpandReturn ==
    /\ xresult = Running
    /\ xpos > Len(xvalue)
    /\ xresult' = Ok(xout)
    /\ UNCHANGED <<xvalue, xstrings, xpos, xout, parserVars, entryVars, decodeVars>>

NextExpand ==
    \/ ExpandCopy
    \/ ExpandEscape
    \/ ExpandVar
    \/ ExpandUnterminated
    \/ ExpandNotFound
    \/ ExpandReturn

SpecExpand == InitExpand /\ [][NextExpand]_vars

---------------------------------------------------------------------------
(* Claims about expand_vars *)

NoExpansion == <<"no expansion">>

\* The Raw values of the Items of the section whose key is name in any case.
RefValues(strings, name) ==
    LET idx == Ascending({i \in 1..Len(strings) :
                   /\ strings[i].kind = "Item"
                   /\ strings[i].value.kind = "Raw"
                   /\ Len(strings[i].key) = Len(name)
                   /\ \A k \in 1..Len(name) :
                          ToLower(strings[i].key[k]) = ToLower(name[k])})
    IN  [i \in 1..Len(idx) |-> strings[idx[i]].value.s]

\* What the documentation asks of expand: `%%` gives `%`, `%name%` gives the
\* value of name, pasted as it is, anything else is copied; NoExpansion when a
\* placeholder does not close or has no value.
RECURSIVE RefExpand(_, _)
RefExpand(v, strings) ==
    IF v = <<>> THEN <<>>
    ELSE IF Head(v) # "%" THEN
        LET rest == RefExpand(Tail(v), strings)
        IN  IF rest = NoExpansion THEN NoExpansion ELSE <<Head(v)>> \o rest
    ELSE IF Len(v) >= 2 /\ v[2] = "%" THEN
        LET rest == RefExpand(SubSeq(v, 3, Len(v)), strings)
        IN  IF rest = NoExpansion THEN NoExpansion ELSE <<"%">> \o rest
    ELSE IF \A i \in 2..Len(v) : v[i] # "%" THEN NoExpansion
    ELSE
        LET close == CHOOSE i \in 2..Len(v) : v[i] = "%" /\ \A j \in 2..(i - 1) : v[j] # "%"
            vals == RefValues(strings, SubSeq(v, 2, close - 1))
            rest == RefExpand(SubSeq(v, close + 1, Len(v)), strings)
        IN  IF vals = <<>> \/ rest = NoExpansion THEN NoExpansion
            ELSE vals[1] \o rest

\* C10: expand replaces every `%name%` by the Raw value of the first Item whose
\* key equals name case-insensitively, copies every other character in order,
\* and pastes the replacement as it is: a `%` inside a replacement is neither
\* scanned nor expanded.
C10_ExpandIsVerbatim ==
    xresult # Running =>
        IF RefExpand(xvalue, xstrings) = NoExpansion
        THEN xresult.tag = "Err"
        ELSE xresult = Ok(RefExpand(xvalue, xstrings))

\* C10 witness: a placeholder written in lower case was replaced by the value
\* of the key N, which itself holds a placeholder, and the text around it kept.
C10_Witness ==
    /\ xvalue = <<"!", "%", "n", "%", "n">>
    /\ xstrings = <<Item(<<"N">>, Raw(<<"%", "n", "%">>))>>
    /\ xresult = Ok(<<"!", "%", "n", "%", "n">>)

\* What is left of the string when a `%` outside a placeholder name is next.
AtPercent == xresult = Running /\ Peek(xvalue, xpos) = "%"

\* The example of the documentation, with n for percentage and S for 50.
EscapeExample ==
    (/\ xvalue = <<"%", "n", "%", "%", "%">>
     /\ xstrings = <<Item(<<"n">>, Raw(<<"S">>))>>
     /\ xresult # Running) => xresult = Ok(<<"S", "%">>)

\* C11: a `%` followed at once by another `%`, outside a placeholder name, is
\* an escape: the step taken there pushes exactly one `%`, consumes the two
\* characters and neither opens a placeholder nor fails; so `%n%%%` with
\* n = S gives `S%`.
C11_PercentEscape ==
    /\ []EscapeExample
    /\ [][(AtPercent /\ Peek(xvalue, xpos + 1) = "%") =>
             /\ xout' = Append(xout, "%")
             /\ xpos' = xpos + 2
             /\ xresult' = Running]_vars

\* C11 witness: the example was expanded, the escape after the placeholder
\* giving the one `%` of the result.
C11_Witness ==
    /\ xvalue = <<"%", "n", "%", "%", "%">>
    /\ xstrings = <<Item(<<"n">>, Raw(<<"S">>))>>
    /\ xresult = Ok(<<"S", "%">>)

\* The left-to-right reading of a string: "open" when a `%` opens a placeholder
\* that no later `%` closes, "unknown" when a closed placeholder has no value
\* in the section, "done" when the end is reached.
RECURSIVE Reading(_, _)
Reading(v, strings) ==
    IF v = <<>> THEN "done"
    ELSE IF Head(v) # "%" THEN Reading(Tail(v), strings)
    ELSE IF starts_with(Tail(v), "%") THEN Reading(Tail(Tail(v)), strings)
    ELSE LET later == {i \in 2..Len(v) : v[i] = "%"}
         IN  IF later = {} THEN "open"
             ELSE LET close == CHOOSE i \in later : \A j \in later : i <= j
                  IN  IF RefValues(strings, SubSeq(v, 2, close - 1)) = <<>>
                      THEN "unknown"
                      ELSE Reading(SubSeq(v, close + 1, Len(v)), strings)

\* C12: expand fails with Unterminated exactly when, reading from the left with
\* `%%` taken as an escape and every earlier closed placeholder found in the
\* section, a `%` opens a placeholder and the string ends before another `%`;
\* the error carries no expanded string.
C12_UnterminatedExactly ==
    xresult # Running =>
        /\ xresult = Err(ExpandVarsError("Unterminated"))
               <=> Reading(xvalue, xstrings) = "open"
        /\ xresult.tag = "Err" => DOMAIN xresult = {"tag", "error"}

\* C12 witness: the placeholder `%n%` was resolved and the `%` after it opened
\* a name that the end of the string cut short.
C12_Witness ==
    /\ xvalue = <<"%", "n", "%", "%", "N">>
    /\ xstrings = <<Item(<<"n">>, Raw(<<"S">>))>>
    /\ xpos = 6
    /\ xout = <<"S">>
    /\ xresult = Err(ExpandVarsError("Unterminated"))

\* The name of the placeholder that the `%` before position p closes: the text
\* after the `%` that precedes it.
ClosedName(v, p) ==
    LET close == p - 1
        open == CHOOSE i \in 1..(close - 1) :
                    v[i] = "%" /\ \A j \in (i + 1)..(close - 1) : v[j] # "%"
    IN  SubSeq(v, open + 1, close - 1)

\* Some Item of the section has the name as its key, in any case, and a Raw
\* value.
HasRawItem(strings, name) ==
    \E i \in 1..Len(strings) :
        /\ strings[i].kind = "Item"
        /\ strings[i].value.kind = "Raw"
        /\ to_lowercase(strings[i].key) = to_lowercase(name)

\* C13: expand fails with NotFound when the name of a closed placeholder
\* matches, case-insensitively, no Item with a Raw value (no such key, the
\* text only on a ValueOnly entry, or only Items with List values); a matching
\* Item with a Raw value anywhere in the section resolves the placeholder, so
\* NotFound is raised for no other reason.
C13_NotFound ==
    xresult # Running =>
        /\ Reading(xvalue, xstrings) = "unknown"
               => xresult = Err(ExpandVarsError("NotFound"))
        /\ xresult = Err(ExpandVarsError("NotFound"))
               => ~HasRawItem(xstrings, ClosedName(xvalue, xpos))

\* C13 witness: the name N matches the key n, whose only Item holds a List,
\* and the expansion failed with NotFound.
C13_Witness ==
    /\ xvalue = <<"!", "%", "N", "%">>
    /\ xstrings = <<Item(<<"n">>, List(<<<<"a">>, <<"b">>>>))>>
    /\ xout = <<"!">>
    /\ xresult = Err(ExpandVarsError("NotFound"))

---------------------------------------------------------------------------
(* decode_data *)

MaxBytes == 4       \* bytes of a buffer made of arbitrary bytes
MaxChars == 3       \* characters of a text that is encoded into a buffer

\* A byte is a number of 0..255, a character its Unicode scalar value.
BOM_LE == <<255, 254>>
REPLACEMENT_CHARACTER == 65533

\* data.starts_with(BOM_LE)
StartsWithBom(bytes) == Len(bytes) >= 2 /\ SubSeq(bytes, 1, 2) = BOM_LE

\* Mutant of from_le_bytes: the most significant byte comes first.
from_be_bytes(b0, b1) == b0 * 256 + b1

\* u16::from_le_bytes([chunk[0], chunk[1]])
from_le_bytes(b0, b1) == b0 + b1 * 256

\* data[2..].chunks_exact(2).map(..): a last odd byte is left out.
CodeUnits(bytes) ==
    [i \in 1..(Len(bytes) \div 2) |-> from_le_bytes(bytes[2 * i - 1], bytes[2 * i])]

IsHighSurrogate(u) == u \in 55296..56319
IsLowSurrogate(u) == u \in 56320..57343

\* char::decode_utf16(..).map(|c| c.unwrap_or(REPLACEMENT_CHARACTER)): a unit
\* that is no surrogate is a character, a high surrogate followed by a low one
\* is one character, any other surrogate is replaced; the unit that follows an
\* unpaired high surrogate is read again.
RECURSIVE decode_utf16(_)
decode_utf16(units) ==
    IF units = <<>> THEN <<>>
    ELSE LET u == Head(units)
         IN  IF ~IsHighSurrogate(u) /\ ~IsLowSurrogate(u)
             THEN <<u>> \o decode_utf16(Tail(units))
             ELSE IF IsHighSurrogate(u) /\ Len(units) >= 2 /\ IsLowSurrogate(units[2])
             THEN <<65536 + ((u - 55296) * 1024) + (units[2] - 56320)>>
                      \o decode_utf16(Tail(Tail(units)))
             ELSE <<REPLACEMENT_CHARACTER>> \o decode_utf16(Tail(units))

\* The length of the UTF-8 sequence a byte starts, 0 for a byte that starts
\* none.
utf8_char_width(b) ==
    IF b < 128 THEN 1
    ELSE IF b \in 194..223 THEN 2
    ELSE IF b \in 224..239 THEN 3
    ELSE IF b \in 240..244 THEN 4
    ELSE 0

IsContinuation(b) == b \in 128..191

\* The second byte allowed after a first byte of a sequence of 2, 3 or 4.
SecondByteOk(b0, b1) ==
    IF b0 = 224 THEN b1 \in 160..191
    ELSE IF b0 = 237 THEN b1 \in 128..159
    ELSE IF b0 = 240 THEN b1 \in 144..191
    ELSE IF b0 = 244 THEN b1 \in 128..143
    ELSE IsContinuation(b1)

\* The first chunk of the lossy decoding: how many bytes it takes and the
\* character they give, REPLACEMENT_CHARACTER for an invalid sequence, which
\* ends before the first byte that cannot continue it.
FirstChunk(bytes) ==
    LET at(i) == IF i <= Len(bytes) THEN bytes[i] ELSE 0
        b0 == bytes[1]
        w == utf8_char_width(b0)
        low(b) == b % 64
        bad(n) == [taken |-> n, char |-> REPLACEMENT_CHARACTER]
    IN  IF w = 1 THEN [taken |-> 1, char |-> b0]
        ELSE IF w = 0 \/ ~SecondByteOk(b0, at(2)) THEN bad(1)
        ELSE IF w = 2 THEN [taken |-> 2, char |-> ((b0 % 32) * 64) + low(at(2))]
        ELSE IF ~IsContinuation(at(3)) THEN bad(2)
        ELSE IF w = 3
        THEN [taken |-> 3, char |-> ((b0 % 16) * 4096) + (low(at(2)) * 64) + low(at(3))]
        ELSE IF ~IsContinuation(at(4)) THEN bad(3)
        ELSE [taken |-> 4,
              char |-> ((b0 % 8) * 262144) + (low(at(2)) * 4096)
                           + (low(at(3)) * 64) + low(at(4))]

\* String::from_utf8_lossy(data)
RECURSIVE from_utf8_lossy(_)
from_utf8_lossy(bytes) ==
    IF bytes = <<>> THEN <<>>
    ELSE LET c == FirstChunk(bytes)
         IN  <<c.char>> \o from_utf8_lossy(SubSeq(bytes, c.taken + 1, Len(bytes)))

\* The UTF-8 encoding of a text.
Utf8Char(c) ==
    IF c < 128 THEN <<c>>
    ELSE IF c < 2048 THEN <<192 + (c \div 64), 128 + (c % 64)>>
    ELSE IF c < 65536
    THEN <<224 + (c \div 4096), 128 + ((c \div 64) % 64), 128 + (c % 64)>>
    ELSE <<240 + (c \div 262144), 128 + ((c \div 4096) % 64),
           128 + ((c \div 64) % 64), 128 + (c % 64)>>

Utf8(chars) == Flatten([i \in 1..Len(chars) |-> Utf8Char(chars[i])])

\* The UTF-16 little-endian encoding of a text, without a marker.
Utf16Char(c) ==
    LET le(u) == <<u % 256, u \div 256>>
    IN  IF c < 65536 THEN le(c)
        ELSE le(55296 + ((c - 65536) \div 1024)) \o le(56320 + ((c - 65536) % 1024))

Utf16Le(chars) == Flatten([i \in 1..Len(chars) |-> Utf16Char(chars[i])])

\* The characters of the encoded texts: A, e with acute, the euro sign, an
\* emoji outside the basic plane, the character of the marker, and the
\* replacement character.
DecodeChars == {65, 233, 8364, 128512, 65279, REPLACEMENT_CHARACTER}

\* The bytes of the arbitrary buffers: the two of the marker, NUL, A, and
\* first and continuation bytes of UTF-8 that are also halves of surrogates.
DecodeBytes == {0, 65, 128, 169, 195, 216, 220, 226, 254, 255}

\* The bytes of the code units put after a marker: A and surrogate halves.
UnitBytes == {0, 65, 216, 220}

\* How the buffers are made: a text in UTF-8, a text in UTF-16 LE behind the
\* marker, arbitrary bytes, arbitrary bytes behind the marker.
Origins ==
    [kind : {"utf8", "utf16le"}, chars : SeqsUpTo(DecodeChars, MaxChars)]
    \cup [kind : {"bytes"}, chars : SeqsUpTo(DecodeBytes, MaxBytes)]
    \cup [kind : {"units"}, chars : SeqsUpTo(UnitBytes, MaxBytes)]

Buffer(o) ==
    IF o.kind = "utf8" THEN Utf8(o.chars)
    ELSE IF o.kind = "utf16le" THEN BOM_LE \o Utf16Le(o.chars)
    ELSE IF o.kind = "units" THEN BOM_LE \o o.chars
    ELSE o.chars

InitDecode ==
    /\ origin \in Origins
    /\ data = Buffer(origin)
    /\ decoded = <<>>
    /\ dpc = "call"
    /\ ParserIdle
    /\ EntryIdle
    /\ ExpandIdle

\* Likely UTF-16 LE
DecodeUtf16 ==
    /\ dpc = "call"
    /\ StartsWithBom(data)
    /\ decoded' = decode_utf16(CodeUnits(SubSeq(data, 3, Len(data))))
    /\ dpc' = "done"
    /\ UNCHANGED <<data, origin, parserVars, entryVars, expandVars>>

\* Otherwise, assume ANSI, which is a subset of UTF-8.
DecodeUtf8 ==
    /\ dpc = "call"
    /\ ~StartsWithBom(data)
    /\ decoded' = from_utf8_lossy(data)
    /\ dpc' = "done"
    /\ UNCHANGED <<data, origin, parserVars, entryVars, expandVars>>

NextDecode ==
    \/ DecodeUtf16
    \/ DecodeUtf8

SpecDecode == InitDecode /\ [][NextDecode]_vars

\* decode_data as a function of the buffer: what a call returns.
decode_data(bytes) ==
    IF StartsWithBom(bytes)
    THEN decode_utf16(CodeUnits(SubSeq(bytes, 3, Len(bytes))))
    ELSE from_utf8_lossy(bytes)

\* A Unicode scalar value: a code point that is no surrogate.
IsChar(c) == c \in 0..1114111 /\ ~IsHighSurrogate(c) /\ ~IsLowSurrogate(c)

\* A text: a finite sequence of characters.
IsText(t) == DOMAIN t = 1..Len(t) /\ \A i \in 1..Len(t) : IsChar(t[i])

\* C14: decode is total and chooses by the leading marker: on every buffer a
\* call returns a text of characters; behind FF FE the remaining bytes are
\* read as UTF-16 LE code units, any other buffer as UTF-8; the UTF-8 buffer
\* of a text and its UTF-16 LE buffer behind the marker both decode to that
\* text.
C14_DecodeByMarker ==
    /\ dpc = "call" => IsText(decode_data(data))
    /\ dpc = "done" =>
        /\ IsText(decoded)
        /\ origin.kind \in {"utf8", "utf16le"} => decoded = origin.chars
        /\ StartsWithBom(data) => Len(decoded) <= (Len(data) - 2) \div 2
        /\ (~StartsWithBom(data) /\ \A i \in 1..Len(data) : data[i] < 128)
               => decoded = data
        /\ (origin.kind = "units" /\ \A i \in 1..Len(origin.chars) :
                                         origin.chars[i] \in {0, 65})
               => decoded = [i \in 1..(Len(origin.chars) \div 2) |->
                      origin.chars[2 * i - 1] + (256 * origin.chars[2 * i])]

\* C14 witness: the text `A`, emoji, euro sign was decoded from its UTF-16 LE
\* buffer of a marker and four code units, two of them a surrogate pair.
C14_Witness ==
    /\ origin = [kind |-> "utf16le", chars |-> <<65, 128512, 8364>>]
    /\ data = <<255, 254, 65, 0, 61, 216, 0, 222, 172, 32>>
    /\ dpc = "done"
    /\ decoded = <<65, 128512, 8364>>

---------------------------------------------------------------------------
(* Claims about the lines read_next_entry hands to parse_section_entry *)

\* What the assertions at the top of parse_section_entry ask of a line.
IsLogicalLine(ln) ==
    /\ ln # <<>>
    /\ ~ends_with(ln, BS)
    /\ \A i \in 1..Len(ln) : ln[i] \notin {CR, LF}

\* C15: every line that read_next_entry hands to parse_section_entry is
\* non-empty, holds no carriage return or line feed and does not end with a
\* backslash, so no assertion of parse_section_entry fails and the parse ends
\* with a document or an error, never with a panic; quoted values over several
\* lines and lines ending in two backslashes included.
C15_NoPanic ==
    /\ result # Panic
    /\ (pc \in {"entries", "done"} /\ line # <<>> /\ result # Err(UnterminatedString))
           => IsLogicalLine(line)

\* A line without quotes, with its comment and the whitespace before it taken
\* off.
BeforeComment(l) == trim_end(SubSeq(l, 1, FindFrom(l, 1, ";") - 1))

\* The words of the lines that end with a doubled backslash.
IsWordOf(s, chars) == \A i \in 1..Len(s) : s[i] \in chars

\* C16: only an unescaped backslash at the end of a line continues it. For a
\* section [A] whose first line is a word followed by a doubled backslash
\* (comment stripped), that line is a logical line of its own: its field ends
\* with one literal backslash and a following line is an entry of its own.
C16_DoubledBackslashEndsLine ==
    (pc = "done" /\ HasHeaderA(text)) =>
        LET ls == SplitLines(BodyOf(text))
            first == BeforeComment(ls[1])
            word == SubSeq(first, 1, Len(first) - 2)
        IN  (/\ Len(ls) \in {1, 2}
             /\ \A i \in 1..Len(ls[1]) : ls[1][i] # DQ
             /\ Len(first) >= 2
             /\ SubSeq(first, Len(first) - 1, Len(first)) = <<BS, BS>>
             /\ IsWordOf(word, {"a", "b"})
             /\ Len(ls) = 2 => (ls[2] # <<>> /\ IsWordOf(ls[2], {"a", "b", "y"})))
              => result = OnlyA(<<ValueOnly(Raw(word \o <<BS>>))>>
                     \o IF Len(ls) = 2 THEN <<ValueOnly(Raw(ls[2]))>> ELSE <<>>)

---------------------------------------------------------------------------
(* Termination *)

\* A bound on the steps the parser still takes: four for each character left,
\* and the place in the loops. In read_next_entry with a character left the
\* next iteration consumes it; with none left the iteration breaks.
StepsLeft ==
    4 * (Len(text) + 1 - pos)
      + (IF pc = "done" THEN 0
         ELSE IF pc = "top" THEN 1
         ELSE IF pc = "entries" THEN 2
         ELSE IF Peek(text, pos) # None THEN 0 ELSE 3)

\* C17: the parse terminates on every input. Every step lowers a bound that
\* never goes below zero, and every iteration of read_next_entry ends in
\* continue, break or return; the iterator never moves back; an iteration that stays in its
\* loop (the top-level loop of into_sections, the continuation loop of
\* read_next_entry) consumes at least one character; read_next_entry is
\* entered with a character left and its first iteration consumes it, so
\* every iteration of the entry loop consumes too. This holds also when the
\* input ends after a continuation backslash or inside a header.
C17_ParseTerminates ==
    /\ [](StepsLeft >= 0)
    /\ [](pc \in {"top", "entries", "read", "done"})
    /\ [](pc = "read" =>
             ReadPiece(text, pos, line, within_quotes).kind
                 \in {"continue", "err", "break"})
    /\ [][
          /\ StepsLeft' < StepsLeft
          /\ pos' >= pos
          /\ (pc' = pc) => (pos' > pos)
          /\ (pc = "entries" /\ pc' = "read") => (Peek(text, pos) # None)
          /\ (pc = "read" /\ Peek(text, pos) # None) => (pos' > pos)
       ]_vars

\* C17 witness: the parse of a text that ends right after a continuation
\* backslash has returned.
C17_Witness ==
    /\ text = HeaderA \o <<"a", BS>>
    /\ pos = Len(text) + 1
    /\ pc = "done"

====
